---- MODULE Spec2Model ----
(***************************************************************************)
(* The translation cache and usage statistics of the greeter: Greeter,     *)
(* its TranslationCache and Stats (greeter.go) and the HTTP handler with   *)
(* the process-wide Stats (server.go).                                     *)
(***************************************************************************)
EXTENDS Integers, Sequences, FiniteSets, TLC

(***************************************************************************)
(* Strings.  A Go string is a sequence of bytes.  A string is modelled as  *)
(* a sequence of tokens, one token per UTF-8 encoded rune or per byte that *)
(* is not part of valid UTF-8: a one-character TLA+ string for an ASCII    *)
(* character, "U+xxxx" for a rune outside ASCII, "0xFF" for the byte FF.   *)
(***************************************************************************)
TwoByteRunes == {"U+00E9"}

ThreeByteRunes == {"U+FFFD"}

InvalidBytes == {"0xFF"}

\* The number of bytes one token takes in the Go string.
ByteWidth(tok) ==
    IF tok \in TwoByteRunes THEN 2 ELSE IF tok \in ThreeByteRunes THEN 3 ELSE 1

\* len(s) of a Go string: its number of bytes.
RECURSIVE ByteLen(_)
ByteLen(s) == IF s = <<>> THEN 0 ELSE ByteWidth(Head(s)) + ByteLen(Tail(s))

\* utf8.ValidString(s)
ValidUTF8(s) == \A i \in 1..Len(s) : s[i] \notin InvalidBytes

(***************************************************************************)
(* float64.  Every cost the program computes is a multiple of 2^-68 below  *)
(* 2^-4, so a float64 is modelled exactly by the integer v with value      *)
(* v * 2^-68, held as four 16-bit limbs, least significant first.  Each    *)
(* arithmetic operation rounds its exact result to 53 significant bits,    *)
(* ties to even, as IEEE 754 binary64 does.                                *)
(***************************************************************************)
LimbBase == 2^16

FloatZero == <<0, 0, 0, 0>>

\* The float64 nearest to the constant 0.00002: 5902958103587057 * 2^-68
\* (0x14F8B588E368F1 = limbs 0x68F1, 0x88E3, 0xF8B5, 0x0014).
UnitCost == <<26865, 35043, 63669, 20>>

\* Carry propagation: the limbs of the integer given by four wide limbs.
Carry(w) ==
    LET c1 == w[1] \div LimbBase
        c2 == (w[2] + c1) \div LimbBase
        c3 == (w[3] + c2) \div LimbBase
    IN  <<w[1] % LimbBase, (w[2] + c1) % LimbBase, (w[3] + c2) % LimbBase, w[4] + c3>>

\* The exact sum and the exact product with a small natural number.
ExactAdd(a, b) == Carry(<<a[1] + b[1], a[2] + b[2], a[3] + b[3], a[4] + b[4]>>)

ExactMul(a, n) == Carry(<<a[1] * n, a[2] * n, a[3] * n, a[4] * n>>)

\* The number of bits of a natural number below 2^16.
RECURSIVE BitLen(_)
BitLen(n) == IF n = 0 THEN 0 ELSE 1 + BitLen(n \div 2)

\* Rounding to 53 significant bits, ties to even.  The top limb holds bits
\* 48 and up, so the value has more than 53 bits when the top limb is 32 or
\* more, and then the j = BitLen(top) - 5 lowest bits are rounded away.
Round53(v) ==
    IF v[4] < 32 THEN v
    ELSE LET j    == BitLen(v[4]) - 5
             unit == 2^j
             r    == v[1] % unit
             odd  == (v[1] \div unit) % 2 = 1
             up   == r * 2 > unit \/ (r * 2 = unit /\ odd)
         IN  IF up THEN Carry(<<v[1] - r + unit, v[2], v[3], v[4]>>)
                   ELSE <<v[1] - r, v[2], v[3], v[4]>>

\* x + y, and float64(n) * 0.00002, each rounded once.  (The operands are
\* bound to their values first, so that each is evaluated once.)
FloatAdd(x, y) ==
    CHOOSE r \in {Round53(s) : s \in {ExactAdd(a, b) : a \in {x}, b \in {y}}} : TRUE

FloatMulUnitCost(n) ==
    CHOOSE r \in {Round53(s) : s \in {ExactMul(UnitCost, m) : m \in {n}}} : TRUE

\* x + float64(n) * 0.00002 computed as one fused multiply-add, which rounds
\* once: the Go language lets a build fuse x += y * z.
FloatFusedAddMul(x, n) ==
    CHOOSE r \in {Round53(s) : s \in {ExactAdd(a, ExactMul(UnitCost, m)) : a \in {x}, m \in {n}}} : TRUE

(***************************************************************************)
(* The time-based greeting.                                                *)
(***************************************************************************)
GoodMorning == <<"G", "o", "o", "d", " ", "m", "o", "r", "n", "i", "n", "g">>

GoodAfternoon == <<"G", "o", "o", "d", " ", "a", "f", "t", "e", "r", "n", "o", "o", "n">>

GoodEvening == <<"G", "o", "o", "d", " ", "e", "v", "e", "n", "i", "n", "g">>

GoodNight == <<"G", "o", "o", "d", " ", "n", "i", "g", "h", "t">>

\* fmt.Sprintf("%s, %s!", greeting, recipient)
Sprintf(greeting, recipient) == greeting \o <<",", " ">> \o recipient \o <<"!">>

\* getTimeBasedGreeting with each boundary hour given to the earlier greeting.
getTimeBasedGreetingInclusive(hour, recipient) ==
    LET greeting == IF hour <= 12 THEN GoodMorning
                    ELSE IF hour <= 17 THEN GoodAfternoon
                    ELSE IF hour <= 22 THEN GoodEvening
                    ELSE GoodNight
    IN  Sprintf(greeting, recipient)

getTimeBasedGreeting(hour, recipient) ==
    LET greeting == IF hour < 12 THEN GoodMorning
                    ELSE IF hour < 17 THEN GoodAfternoon
                    ELSE IF hour < 22 THEN GoodEvening
                    ELSE GoodNight
    IN  Sprintf(greeting, recipient)

(***************************************************************************)
(* Go maps.  A map is nil or holds a finite function; reading a nil map    *)
(* finds nothing, writing to it panics.                                    *)
(***************************************************************************)
EmptyFn == [k \in {} |-> <<>>]

NilMap == [nil |-> TRUE, m |-> EmptyFn]

\* make(map[...]...)
MakeMap == [nil |-> FALSE, m |-> EmptyFn]

\* _, ok := mp[k]
Has(mp, k) == k \in DOMAIN mp.m

\* mp[k] = v on a map that is not nil
Put(mp, k, v) ==
    [mp EXCEPT !.m = [j \in DOMAIN mp.m \cup {k} |-> IF j = k THEN v ELSE mp.m[j]]]

(***************************************************************************)
(* encoding/json on map[string]map[string]string.  A document is null or   *)
(* an object, a set of members <<name, value>>; a name and a string value  *)
(* are string literals, sequences of literal tokens: a rune written as it  *)
(* is, or one escape sequence.                                             *)
(***************************************************************************)
\* What Marshal writes for one token of a string: it escapes the quote, the
\* backslash and the HTML characters, and writes the escape of U+FFFD for a byte that is
\* not valid UTF-8.
EncodeRune(tok) ==
    IF tok \in InvalidBytes THEN "\\ufffd"
    ELSE IF tok = "\"" THEN "\\\""
    ELSE IF tok = "\\" THEN "\\\\"
    ELSE IF tok = "<" THEN "\\u003c"
    ELSE IF tok = ">" THEN "\\u003e"
    ELSE IF tok = "&" THEN "\\u0026"
    ELSE tok

EncodeString(s) == [i \in 1..Len(s) |-> EncodeRune(s[i])]

\* DecodeRune that keeps the escapes of <, > and & as they are written.
DecodeRuneKeepingHTML(lit) ==
    IF lit = "\\ufffd" THEN "U+FFFD"
    ELSE IF lit = "\\\"" THEN "\""
    ELSE IF lit = "\\\\" THEN "\\"
    ELSE lit

\* What Unmarshal reads from one literal token.
DecodeRune(lit) ==
    IF lit = "\\ufffd" THEN "U+FFFD"
    ELSE IF lit = "\\\"" THEN "\""
    ELSE IF lit = "\\\\" THEN "\\"
    ELSE IF lit = "\\u003c" THEN "<"
    ELSE IF lit = "\\u003e" THEN ">"
    ELSE IF lit = "\\u0026" THEN "&"
    ELSE lit

DecodeString(l) == [i \in 1..Len(l) |-> DecodeRune(l[i])]

JSONNull == [type |-> "null", members |-> {}]

JSONObject(members) == [type |-> "object", members |-> members]

\* A JSON value that is neither null nor an object, where the map wants one
\* (a number, say).
JSONNumber == [type |-> "number", members |-> {}]

\* json.MarshalIndent(g.cache.Translations, "", "  "); it cannot fail for
\* this type.
MarshalInner(langCache) ==
    IF langCache.nil THEN JSONNull
    ELSE JSONObject({<<EncodeString(l), EncodeString(langCache.m[l])>> : l \in DOMAIN langCache.m})

Marshal(translations) ==
    IF translations.nil THEN JSONNull
    ELSE JSONObject({<<EncodeString(t), MarshalInner(translations.m[t])>> : t \in DOMAIN translations.m})

\* The number of bytes of a string literal, its two quotes included.
LiteralWidth(lit) ==
    IF lit \in {"\\ufffd", "\\u003c", "\\u003e", "\\u0026"} THEN 6
    ELSE IF lit \in {"\\\"", "\\\\"} THEN 2
    ELSE ByteWidth(lit)

RECURSIVE LiteralLen(_)
LiteralLen(l) == IF l = <<>> THEN 2 ELSE LiteralWidth(Head(l)) + LiteralLen(Tail(l))

\* The number of bytes MarshalIndent writes: "{}" for an empty object, and
\* otherwise the braces around one line per member, each after a line break
\* and two spaces per level, with a comma between two members.
RECURSIVE InnerLinesLen(_)
InnerLinesLen(members) ==
    IF members = {} THEN 0
    ELSE LET mem == CHOOSE mem \in members : TRUE
         IN  1 + 4 + LiteralLen(mem[1]) + 2 + LiteralLen(mem[2])
               + InnerLinesLen(members \ {mem})

InnerDocLen(doc) ==
    IF doc.type = "null" THEN 4
    ELSE IF doc.type = "number" THEN 1
    ELSE IF doc.members = {} THEN 2
    ELSE 1 + InnerLinesLen(doc.members) + (Cardinality(doc.members) - 1) + 1 + 2 + 1

RECURSIVE LinesLen(_)
LinesLen(members) ==
    IF members = {} THEN 0
    ELSE LET mem == CHOOSE mem \in members : TRUE
         IN  1 + 2 + LiteralLen(mem[1]) + 2 + InnerDocLen(mem[2])
               + LinesLen(members \ {mem})

DocLen(doc) ==
    IF doc.type = "null" THEN 4
    ELSE IF doc.type = "number" THEN 1
    ELSE IF doc.members = {} THEN 2
    ELSE 1 + LinesLen(doc.members) + (Cardinality(doc.members) - 1) + 1 + 1

\* json.Unmarshal(data, &cache.Translations) of a well-formed document:
\* null sets the map to nil; an object is decoded into the map, which is
\* made when it is nil and keeps the entries it has.  A value of another
\* type is skipped and the rest is decoded: under the name of a member
\* that is no object the map gets a nil map, and a document that is no
\* object leaves the map as it is.
UnmarshalInner(doc) ==
    IF doc.type # "object" THEN NilMap
    ELSE LET names == {DecodeString(mem[1]) : mem \in doc.members}
         IN  [nil |-> FALSE,
              m |-> [l \in names |->
                        LET mem == CHOOSE mem \in doc.members : DecodeString(mem[1]) = l
                        IN  DecodeString(mem[2])]]

Unmarshal(doc, translations) ==
    IF doc.type = "null" THEN NilMap
    ELSE IF doc.type = "number" THEN translations
    ELSE LET names == {DecodeString(mem[1]) : mem \in doc.members}
         IN  [nil |-> FALSE,
              m |-> [t \in DOMAIN translations.m \cup names |->
                        IF t \in names
                        THEN LET mem == CHOOSE mem \in doc.members : DecodeString(mem[1]) = t
                             IN  UnmarshalInner(mem[2])
                        ELSE translations.m[t]]]

\* Whether json.Unmarshal returns an error for a well-formed document (an
\* UnmarshalTypeError): some value in it has a type the map cannot take.
UnmarshalTypeError(doc) ==
    \/ doc.type = "number"
    \/ \E mem \in doc.members : mem[2].type = "number"

(***************************************************************************)
(* The snapshot file translation_cache.json: missing, or a number of bytes *)
(* that are a well-formed document or not (an empty or mixed file).        *)
(***************************************************************************)
NoFile == [exists |-> FALSE, len |-> 0, valid |-> FALSE, doc |-> JSONNull]

\* The file right after it is opened with O_TRUNC.
EmptyFile == [exists |-> TRUE, len |-> 0, valid |-> FALSE, doc |-> JSONNull]

\* The file after the bytes of doc are written at offset 0 over f: they
\* replace the file when they are at least as long as it, and otherwise the
\* end of the old bytes follows them, which is no document.
WriteAtStart(f, doc) ==
    IF DocLen(doc) >= f.len
    THEN [exists |-> TRUE, len |-> DocLen(doc), valid |-> TRUE, doc |-> doc]
    ELSE [exists |-> TRUE, len |-> f.len, valid |-> FALSE, doc |-> JSONNull]

\* A file that holds the bytes of a well-formed document.
FileOf(doc) == [exists |-> TRUE, len |-> DocLen(doc), valid |-> TRUE, doc |-> doc]

\* A file of seven bytes that are no JSON.
GarbageFile == [exists |-> TRUE, len |-> 7, valid |-> FALSE, doc |-> JSONNull]

(***************************************************************************)
(* Bounds and inputs.                                                      *)
(***************************************************************************)
\* The goroutines: HTTP requests being handled, and callers that construct
\* a Greeter and use it directly (the command line, the tests).
NumProcs == 2

\* The number of Greet calls made in one run, by all goroutines together.
MaxCalls == 2

\* The number of Greet calls made in one run of SpecPersist.
PersistCalls == 3

Procs == 1..NumProcs

\* Recipient names: plain ASCII, a name with a character JSON escapes and a
\* two-byte rune, and a name that is not valid UTF-8.
AllRecipients == {<<"A", "l">>, <<"<", "U+00E9">>, <<"0xFF">>}

\* The recipients of Spec; the provider cannot be sent the third name.
Recipients == {<<"A", "l">>, <<"<", "U+00E9">>}

English == <<"e", "n">>

\* Target language codes the provider translates to.
SupportedLanguages == {<<"e", "s">>, <<"f", "r">>}

\* Language codes a caller passes: the default, supported ones, and one the
\* provider does not know.
Languages == {English} \cup SupportedLanguages \cup {<<"x", "x">>}

\* The hours of the day, and the hours the clock shows in Spec.
Hours == 0..23

ClockHours == {22}

\* The recipient and the hours of SpecPersist.
PersistRecipients == {<<"<", "U+00E9">>}

PersistHours == {22}

\* The translation the snapshot files of SpecSnapshot hold.
SnapshotText == <<"G", "o", "o", "d", " ", "n", "i", "g", "h", "t", ",", " ", "<", "U+00E9", "!">>

SnapshotEntry == JSONObject({<<EncodeString(<<"e", "s">>), EncodeString(<<"h", "i">>)>>})

\* The files the process can find when it starts: none, an empty one, one
\* that is no JSON, null, a number, a snapshot with one translation, and
\* the same with one more member whose value is a number.
SnapshotFiles ==
    {NoFile, EmptyFile, GarbageFile, FileOf(JSONNull), FileOf(JSONNumber),
     FileOf(JSONObject({<<EncodeString(SnapshotText), SnapshotEntry>>})),
     FileOf(JSONObject({<<EncodeString(SnapshotText), SnapshotEntry>>,
                        <<EncodeString(<<"z">>), JSONNumber>>}))}

\* The languages of SpecSnapshot: the default, one the provider knows and
\* one it does not.
SnapshotLanguages == {English, <<"e", "s">>, <<"x", "x">>}

(***************************************************************************)
(* The translation provider (TranslationClient.TranslateText).             *)
(***************************************************************************)
\* The endings by which two translations of one text differ.
Variants == {<<>>, <<"\"">>}

TranslatedText(req, variant) == req.target \o <<":">> \o req.contents \o variant

\* The answers the provider can give to a request: an error (always
\* possible: network, quota, authentication); when the target language is
\* supported and the text can be sent (a protobuf string must be valid
\* UTF-8), also an answer with no translation or with one.
ProviderResponses(req) ==
    {[err |-> TRUE, translations |-> <<>>]}
    \cup IF req.target \in SupportedLanguages /\ ValidUTF8(req.contents)
         THEN {[err |-> FALSE, translations |-> <<>>]}
              \cup {[err |-> FALSE, translations |-> <<TranslatedText(req, v)>>] : v \in Variants}
         ELSE {}

(***************************************************************************)
(* State.                                                                  *)
(***************************************************************************)
VARIABLES
    env,          \* which of GOOGLE_CLOUD_PROJECT_ID and GOOGLE_APPLICATION_CREDENTIALS are set
    file,         \* translation_cache.json
    globalStats,  \* server.go: globalStats
    statsMutex,   \* server.go: statsMutex
    pc,           \* where each goroutine is
    mode,         \* "server" for a request handler, "direct" for a direct caller
    greeter,      \* the Greeter each goroutine constructed
    frame,        \* the local variables of the Greet call in progress
    ret,          \* what the last Greet call returned
    response,     \* what the handler answered
    calls,        \* how many Greet calls each goroutine has made
    sent,         \* how many requests the provider got from each goroutine
    writes,       \* how many times each goroutine wrote to the file
    entry,        \* the state of the Greeter when its current Greet call began, and
                  \* what it loaded, the codes asked for and the calls that failed
    hist          \* the text each (text, language) pair was first translated to

vars == <<env, file, globalStats, statsMutex, pc, mode, greeter, frame, ret,
          response, calls, sent, writes, entry, hist>>

\* The sum of a counter over the goroutines.
RECURSIVE SumUpTo(_, _)
SumUpTo(f, n) == IF n = 0 THEN 0 ELSE f[n] + SumUpTo(f, n - 1)

TotalCalls == SumUpTo(calls, NumProcs)

ZeroStats == [APICalls |-> 0, CharsSent |-> 0, CostEstimate |-> FloatZero, CacheHits |-> 0]

Unlocked == [readers |-> 0, writer |-> FALSE]

NoError == "nil"

NoGreeter ==
    [recipient |-> <<>>, language |-> <<>>, cache |-> NilMap, mu |-> Unlocked,
     stats |-> ZeroStats]

NoFrame ==
    [hour |-> 0, text |-> <<>>, targetLang |-> <<>>,
     req |-> [contents |-> <<>>, target |-> <<>>, source |-> <<>>],
     translation |-> <<>>, doc |-> JSONNull, saveErr |-> NoError]

NoReturn == [greeting |-> <<>>, err |-> NoError]

NoResponse == [status |-> 0, greeting |-> <<>>, hasStats |-> FALSE, stats |-> ZeroStats]

NoEntry ==
    [stats |-> ZeroStats, cache |-> NilMap, sent |-> 0, writes |-> 0, seen |-> {},
     loaded |-> NilMap, asked |-> {}, failed |-> 0]

\* The state when the process starts, with one of the files in the working
\* directory.
InitFrom(files) ==
    /\ env \in [project : BOOLEAN, credentials : BOOLEAN]
    /\ file \in files
    /\ globalStats = ZeroStats
    /\ statsMutex = Unlocked
    /\ pc = [p \in Procs |-> "start"]
    /\ mode = [p \in Procs |-> "none"]
    /\ greeter = [p \in Procs |-> NoGreeter]
    /\ frame = [p \in Procs |-> NoFrame]
    /\ ret = [p \in Procs |-> NoReturn]
    /\ response = [p \in Procs |-> NoResponse]
    /\ calls = [p \in Procs |-> 0]
    /\ sent = [p \in Procs |-> 0]
    /\ writes = [p \in Procs |-> 0]
    /\ entry = [p \in Procs |-> NoEntry]
    /\ hist = [p \in Procs |-> EmptyFn]

\* The process starts where there is no snapshot file.
Init == InitFrom({NoFile})

(***************************************************************************)
(* greeter.go                                                              *)
(***************************************************************************)
\* What NewGreeter loads: a new map, and the file decoded into it when the
\* file can be read; a file that is no document leaves the map as it is
\* (Unmarshal checks the syntax first).
LoadCache(f) ==
    IF f.exists /\ f.valid THEN Unmarshal(f.doc, MakeMap) ELSE MakeMap

\* Whether NewGreeter logs "Warning: Could not load cache": the file was
\* read and Unmarshal returned an error.
LoadWarning(f) == f.exists /\ (~f.valid \/ UnmarshalTypeError(f.doc))

\* NewGreeter that does not look at the environment and leaves the failure
\* to the first call of the provider.
NewGreeterUnchecked(recipient, clientOk) ==
    [ok |-> TRUE,
     g  |-> [recipient |-> recipient, language |-> English,
             cache |-> LoadCache(file), mu |-> Unlocked, stats |-> ZeroStats]]

\* NewGreeter(recipient): the Greeter, or an error when a variable is not
\* set or the client cannot be made.
NewGreeter(recipient, clientOk) ==
    IF ~env.project THEN [ok |-> FALSE, g |-> NoGreeter]
    ELSE IF ~env.credentials THEN [ok |-> FALSE, g |-> NoGreeter]
    ELSE IF ~clientOk THEN [ok |-> FALSE, g |-> NoGreeter]
    ELSE [ok |-> TRUE,
          g  |-> [recipient |-> recipient, language |-> English,
                  cache |-> LoadCache(file), mu |-> Unlocked, stats |-> ZeroStats]]

\* A direct caller constructs its Greeter (RunCLI, the tests).
Construct(p, recipient, clientOk) ==
    /\ pc[p] = "start"
    /\ LET new == NewGreeter(recipient, clientOk)
       IN  /\ greeter' = [greeter EXCEPT ![p] = new.g]
           /\ pc' = [pc EXCEPT ![p] = IF new.ok THEN "ready" ELSE "done"]
    /\ mode' = [mode EXCEPT ![p] = "direct"]
    /\ UNCHANGED <<env, file, globalStats, statsMutex, frame, ret, response,
                   calls, sent, writes, entry, hist>>

\* SetLanguage(lang), by a direct caller between two Greet calls.
SetLanguage(p, lang) ==
    /\ pc[p] \in {"ready", "returned"}
    /\ mode[p] = "direct"
    /\ greeter[p].language # lang
    /\ greeter' = [greeter EXCEPT ![p].language = lang]
    /\ UNCHANGED <<env, file, globalStats, statsMutex, pc, mode, frame, ret,
                   response, calls, sent, writes, entry, hist>>

\* CountHit that counts nothing.
CountHitNothing(stats) == stats

\* g.stats.CacheHits++
CountHit(stats) == [stats EXCEPT !.CacheHits = @ + 1]

\* CountMiss that counts the call and not its characters and cost, which a
\* Greeter charging only answered calls would add later.
CountMissUncharged(stats, text, fused) == [stats EXCEPT !.APICalls = @ + 1]

\* g.stats.APICalls++; g.stats.CharsSent += len(text);
\* g.stats.CostEstimate += float64(len(text)) * 0.00002, where the build
\* decides whether the product is rounded before it is added (fused or not).
CountMiss(stats, text, fused) ==
    [stats EXCEPT !.APICalls = @ + 1,
                  !.CharsSent = @ + ByteLen(text),
                  !.CostEstimate = IF fused THEN FloatFusedAddMul(@, ByteLen(text))
                                   ELSE FloatAdd(@, FloatMulUnitCost(ByteLen(text)))]

\* NeedsTranslation that sends every language to the provider.
NeedsTranslationAlways(language) == TRUE

\* Greet translates unless the language is the default.
NeedsTranslation(language) == language # English

\* CacheLookup that finds nothing.
CacheLookupMissing(translations, text, targetLang) == [ok |-> FALSE, translation |-> <<>>]

\* CacheLookup that is content with a translation of the text to any
\* language.
CacheLookupAnyLanguage(translations, text, targetLang) ==
    IF Has(translations, text) /\ DOMAIN translations.m[text].m # {}
    THEN [ok |-> TRUE,
          translation |-> translations.m[text].m[CHOOSE l \in DOMAIN translations.m[text].m : TRUE]]
    ELSE [ok |-> FALSE, translation |-> <<>>]

\* The cache lookup of translateGreeting: whether the text has a translation
\* to the language, and the translation.
CacheLookup(translations, text, targetLang) ==
    IF Has(translations, text) /\ Has(translations.m[text], targetLang)
    THEN [ok |-> TRUE, translation |-> translations.m[text].m[targetLang]]
    ELSE [ok |-> FALSE, translation |-> <<>>]

\* TranslateTextRequest that checks the code first and asks for the default
\* language when it does not know the code.
TranslateTextRequestValidated(text, targetLang) ==
    [contents |-> text,
     target |-> IF targetLang \in SupportedLanguages THEN targetLang ELSE English,
     source |-> English]

\* The request translateGreeting builds.
TranslateTextRequest(text, targetLang) ==
    [contents |-> text, target |-> targetLang, source |-> English]

\* What Greet returns for the error of translateGreeting.
ErrTranslationFailed == "translation failed: translation failed"

ErrNoTranslation == "translation failed: no translation returned"

\* The first translation returned for each pair, with this one added.
Remember(h, text, lang, translation) ==
    IF <<text, lang>> \in DOMAIN h THEN h
    ELSE [k \in DOMAIN h \cup {<<text, lang>>} |->
             IF k = <<text, lang>> THEN translation ELSE h[k]]

\* Greet, up to its return (the default language) or to the point where
\* translateGreeting asks for the read lock.
Greet(p, hour) ==
    /\ pc[p] \in {"ready", "returned"}
    /\ mode[p] = "server" => calls[p] = 0
    /\ LET g    == greeter[p]
           text == getTimeBasedGreeting(hour, g.recipient)
       IN  /\ frame' = [frame EXCEPT ![p] =
                  [NoFrame EXCEPT !.hour = hour, !.text = text, !.targetLang = g.language]]
           /\ entry' = [entry EXCEPT ![p] =
                  [stats |-> g.stats, cache |-> g.cache, sent |-> sent[p],
                   writes |-> writes[p], seen |-> DOMAIN hist[p],
                   loaded |-> IF calls[p] = 0 THEN g.cache ELSE entry[p].loaded,
                   asked |-> entry[p].asked
                             \cup IF NeedsTranslation(g.language) THEN {g.language} ELSE {},
                   failed |-> entry[p].failed
                              + IF calls[p] > 0 /\ ret[p].err # NoError THEN 1 ELSE 0]]
           /\ IF NeedsTranslation(g.language)
              THEN /\ pc' = [pc EXCEPT ![p] = "rlock"]
                   /\ UNCHANGED <<greeter, ret>>
              ELSE /\ greeter' = [greeter EXCEPT ![p].stats = CountHit(@)]
                   /\ ret' = [ret EXCEPT ![p] = [greeting |-> text, err |-> NoError]]
                   /\ pc' = [pc EXCEPT ![p] = "returned"]
    /\ calls' = [calls EXCEPT ![p] = @ + 1]
    /\ UNCHANGED <<env, file, globalStats, statsMutex, mode, response, sent,
                   writes, hist>>

\* translateGreeting: g.cache.mu.RLock()
AcquireRLock(p) ==
    /\ pc[p] = "rlock"
    /\ ~greeter[p].mu.writer
    /\ greeter' = [greeter EXCEPT ![p].mu.readers = @ + 1]
    /\ pc' = [pc EXCEPT ![p] = "lookup"]
    /\ UNCHANGED <<env, file, globalStats, statsMutex, mode, frame, ret,
                   response, calls, sent, writes, entry, hist>>

\* Lookup that keeps the read lock after a miss, while the request is with
\* the provider.
LookupHolding(p, fused) ==
    /\ pc[p] = "lookup"
    /\ LET g     == greeter[p]
           text  == frame[p].text
           found == CacheLookup(g.cache, text, frame[p].targetLang)
       IN  IF found.ok
           THEN /\ greeter' = [greeter EXCEPT ![p].stats = CountHit(@),
                                              ![p].mu.readers = @ - 1]
                /\ ret' = [ret EXCEPT ![p] = [greeting |-> found.translation, err |-> NoError]]
                /\ hist' = [hist EXCEPT ![p] =
                       Remember(@, text, frame[p].targetLang, found.translation)]
                /\ pc' = [pc EXCEPT ![p] = "returned"]
                /\ UNCHANGED <<frame, sent>>
           ELSE /\ greeter' = [greeter EXCEPT ![p].stats = CountMiss(@, text, fused)]
                /\ frame' = [frame EXCEPT ![p].req =
                       TranslateTextRequest(text, frame[p].targetLang)]
                /\ sent' = [sent EXCEPT ![p] = @ + 1]
                /\ pc' = [pc EXCEPT ![p] = "call"]
                /\ UNCHANGED <<ret, hist>>
    /\ UNCHANGED <<env, file, globalStats, statsMutex, mode, response, calls,
                   writes, entry>>

\* translateGreeting under the read lock: on a hit it counts the hit,
\* unlocks and returns the cached text; on a miss it unlocks, counts the
\* call and sends the request to the provider.
Lookup(p, fused) ==
    /\ pc[p] = "lookup"
    /\ LET g     == greeter[p]
           text  == frame[p].text
           found == CacheLookup(g.cache, text, frame[p].targetLang)
       IN  IF found.ok
           THEN /\ greeter' = [greeter EXCEPT ![p].stats = CountHit(@),
                                              ![p].mu.readers = @ - 1]
                /\ ret' = [ret EXCEPT ![p] = [greeting |-> found.translation, err |-> NoError]]
                /\ hist' = [hist EXCEPT ![p] =
                       Remember(@, text, frame[p].targetLang, found.translation)]
                /\ pc' = [pc EXCEPT ![p] = "returned"]
                /\ UNCHANGED <<frame, sent>>
           ELSE /\ greeter' = [greeter EXCEPT ![p].stats = CountMiss(@, text, fused),
                                              ![p].mu.readers = @ - 1]
                /\ frame' = [frame EXCEPT ![p].req =
                       TranslateTextRequest(text, frame[p].targetLang)]
                /\ sent' = [sent EXCEPT ![p] = @ + 1]
                /\ pc' = [pc EXCEPT ![p] = "call"]
                /\ UNCHANGED <<ret, hist>>
    /\ UNCHANGED <<env, file, globalStats, statsMutex, mode, response, calls,
                   writes, entry>>

\* ProviderResponds that does not look at the error: it caches the empty
\* text of the failed answer and returns an error only after that.
ProviderRespondsUnchecked(p, resp) ==
    /\ pc[p] = "call"
    /\ resp \in ProviderResponses(frame[p].req)
    /\ IF Len(resp.translations) = 0 /\ ~resp.err
       THEN /\ ret' = [ret EXCEPT ![p] = [greeting |-> <<>>, err |-> ErrNoTranslation]]
            /\ pc' = [pc EXCEPT ![p] = "returned"]
            /\ UNCHANGED <<frame, greeter>>
       ELSE IF resp.err
       THEN /\ greeter' = [greeter EXCEPT ![p].cache =
                   IF @.nil THEN @ ELSE Put(@, frame[p].text, MakeMap)]
            /\ ret' = [ret EXCEPT ![p] = [greeting |-> <<>>, err |-> ErrTranslationFailed]]
            /\ pc' = [pc EXCEPT ![p] = "returned"]
            /\ UNCHANGED frame
       ELSE /\ frame' = [frame EXCEPT ![p].translation = resp.translations[1]]
            /\ pc' = [pc EXCEPT ![p] = "lock"]
            /\ UNCHANGED <<ret, greeter>>
    /\ UNCHANGED <<env, file, globalStats, statsMutex, mode, response,
                   calls, sent, writes, entry, hist>>

\* ProviderResponds that sends the request once more when the answer has no
\* translation, before it gives up.
ProviderRespondsRetrying(p, resp) ==
    /\ pc[p] = "call"
    /\ resp \in ProviderResponses(frame[p].req)
    /\ IF resp.err
       THEN /\ ret' = [ret EXCEPT ![p] = [greeting |-> <<>>, err |-> ErrTranslationFailed]]
            /\ pc' = [pc EXCEPT ![p] = "returned"]
            /\ UNCHANGED <<frame, sent>>
       ELSE IF Len(resp.translations) = 0
       THEN /\ ret' = [ret EXCEPT ![p] = [greeting |-> <<>>, err |-> ErrNoTranslation]]
            /\ pc' = [pc EXCEPT ![p] = "returned"]
            /\ sent' = [sent EXCEPT ![p] = @ + 1]
            /\ UNCHANGED frame
       ELSE /\ frame' = [frame EXCEPT ![p].translation = resp.translations[1]]
            /\ pc' = [pc EXCEPT ![p] = "lock"]
            /\ UNCHANGED <<ret, sent>>
    /\ UNCHANGED <<env, file, globalStats, statsMutex, mode, greeter, response,
                   calls, writes, entry, hist>>

\* The provider answers: an error or an empty answer makes translateGreeting
\* and Greet return an error; a translation is kept to be cached.
ProviderResponds(p, resp) ==
    /\ pc[p] = "call"
    /\ resp \in ProviderResponses(frame[p].req)
    /\ IF resp.err
       THEN /\ ret' = [ret EXCEPT ![p] = [greeting |-> <<>>, err |-> ErrTranslationFailed]]
            /\ pc' = [pc EXCEPT ![p] = "returned"]
            /\ UNCHANGED frame
       ELSE IF Len(resp.translations) = 0
       THEN /\ ret' = [ret EXCEPT ![p] = [greeting |-> <<>>, err |-> ErrNoTranslation]]
            /\ pc' = [pc EXCEPT ![p] = "returned"]
            /\ UNCHANGED frame
       ELSE /\ frame' = [frame EXCEPT ![p].translation = resp.translations[1]]
            /\ pc' = [pc EXCEPT ![p] = "lock"]
            /\ UNCHANGED ret
    /\ UNCHANGED <<env, file, globalStats, statsMutex, mode, greeter, response,
                   calls, sent, writes, entry, hist>>

\* translateGreeting: g.cache.mu.Lock()
AcquireLock(p) ==
    /\ pc[p] = "lock"
    /\ greeter[p].mu = Unlocked
    /\ greeter' = [greeter EXCEPT ![p].mu.writer = TRUE]
    /\ pc' = [pc EXCEPT ![p] = "insert"]
    /\ UNCHANGED <<env, file, globalStats, statsMutex, mode, frame, ret,
                   response, calls, sent, writes, entry, hist>>

\* InsertTranslation that makes the inner map and forgets the entry.
InsertTranslationForgotten(translations, text, targetLang, translation) ==
    IF Has(translations, text) THEN translations ELSE Put(translations, text, MakeMap)

\* InsertTranslation that makes a new inner map at every insert, so that the
\* translations of the text to other languages are gone.
InsertTranslationReplacing(translations, text, targetLang, translation) ==
    Put(translations, text, Put(MakeMap, targetLang, translation))

\* InsertTranslation that stores an empty text under the pair.
InsertTranslationBlank(translations, text, targetLang, translation) ==
    LET langCache == IF Has(translations, text) /\ ~translations.m[text].nil
                     THEN translations.m[text] ELSE MakeMap
    IN  Put(translations, text, Put(langCache, targetLang, <<>>))

\* g.cache.Translations[text][targetLang] = translation, with the inner map
\* made when the text has none.
InsertTranslation(translations, text, targetLang, translation) ==
    LET langCache == IF Has(translations, text) /\ ~translations.m[text].nil
                     THEN translations.m[text] ELSE MakeMap
    IN  Put(translations, text, Put(langCache, targetLang, translation))

\* translateGreeting under the write lock: the insert, which panics on a
\* nil map, and the unlock.
Insert(p) ==
    /\ pc[p] = "insert"
    /\ LET g == greeter[p]
       IN  IF g.cache.nil
           THEN /\ pc' = [pc EXCEPT ![p] = "panicked"]
                /\ UNCHANGED greeter
           ELSE /\ greeter' = [greeter EXCEPT
                       ![p].cache = InsertTranslation(@, frame[p].text, frame[p].targetLang,
                                                      frame[p].translation),
                       ![p].mu.writer = FALSE]
                /\ pc' = [pc EXCEPT ![p] = "save"]
    /\ UNCHANGED <<env, file, globalStats, statsMutex, mode, frame, ret,
                   response, calls, sent, writes, entry, hist>>

\* What saveCache returns when os.WriteFile fails.
ErrSaveFailed == "failed to save cache"

\* ReturnAfterSave that fails the call when saveCache failed.
ReturnAfterSaveChecked(translation, saveErr) ==
    IF saveErr # NoError THEN [greeting |-> <<>>, err |-> saveErr]
    ELSE [greeting |-> translation, err |-> NoError]

\* The end of translateGreeting: an error of saveCache is logged, and the
\* translation is returned without error either way.
ReturnAfterSave(translation, saveErr) == [greeting |-> translation, err |-> NoError]

\* translateGreeting returns and Greet returns what it returned.
ReturnTranslation(p, saveErr) ==
    /\ ret' = [ret EXCEPT ![p] = ReturnAfterSave(frame[p].translation, saveErr)]
    /\ hist' = [hist EXCEPT ![p] =
           IF ret'[p].err = NoError
           THEN Remember(@, frame[p].text, frame[p].targetLang, ret'[p].greeting)
           ELSE @]
    /\ pc' = [pc EXCEPT ![p] = "returned"]

\* saveCache: the read lock, MarshalIndent, and os.WriteFile opening the
\* file, which empties it.  When the file cannot be opened saveCache
\* unlocks and returns the error, which is logged.
SaveOpen(p, ok) ==
    /\ pc[p] = "save"
    /\ ~greeter[p].mu.writer
    /\ IF ok
       THEN /\ greeter' = [greeter EXCEPT ![p].mu.readers = @ + 1]
            /\ frame' = [frame EXCEPT ![p].doc = Marshal(greeter[p].cache)]
            /\ file' = EmptyFile
            /\ writes' = [writes EXCEPT ![p] = @ + 1]
            /\ pc' = [pc EXCEPT ![p] = "write"]
            /\ UNCHANGED <<ret, hist>>
       ELSE /\ ReturnTranslation(p, ErrSaveFailed)
            /\ frame' = [frame EXCEPT ![p].saveErr = ErrSaveFailed]
            /\ UNCHANGED <<greeter, file, writes>>
    /\ UNCHANGED <<env, globalStats, statsMutex, mode, response, calls, sent, entry>>

\* saveCache: os.WriteFile writing the bytes (or failing to), the unlock,
\* and the return of translateGreeting and Greet.
SaveWrite(p, ok) ==
    /\ pc[p] = "write"
    /\ file' = IF ok THEN WriteAtStart(file, frame[p].doc) ELSE file
    /\ greeter' = [greeter EXCEPT ![p].mu.readers = @ - 1]
    /\ ReturnTranslation(p, IF ok THEN NoError ELSE ErrSaveFailed)
    /\ frame' = [frame EXCEPT ![p].saveErr = IF ok THEN NoError ELSE ErrSaveFailed]
    /\ UNCHANGED <<env, globalStats, statsMutex, mode, response, calls, sent, writes,
                   entry>>

(***************************************************************************)
(* server.go                                                               *)
(***************************************************************************)
\* The handler of /api/greet, given a name and a language that are not
\* empty, up to its call of Greet.
HandleRequest(p, name, language, clientOk) ==
    /\ pc[p] = "start"
    /\ LET new == NewGreeter(name, clientOk)
       IN  IF new.ok
           THEN /\ greeter' = [greeter EXCEPT ![p] = [new.g EXCEPT !.language = language]]
                /\ pc' = [pc EXCEPT ![p] = "ready"]
                /\ UNCHANGED response
           ELSE /\ response' = [response EXCEPT ![p] = [NoResponse EXCEPT !.status = 500]]
                /\ pc' = [pc EXCEPT ![p] = "done"]
                /\ UNCHANGED greeter
    /\ mode' = [mode EXCEPT ![p] = "server"]
    /\ UNCHANGED <<env, file, globalStats, statsMutex, frame, ret, calls, sent,
                   writes, entry, hist>>

\* The handler after Greet returned an error.
RespondError(p) ==
    /\ pc[p] = "returned"
    /\ mode[p] = "server"
    /\ ret[p].err # NoError
    /\ response' = [response EXCEPT ![p] = [NoResponse EXCEPT !.status = 500]]
    /\ pc' = [pc EXCEPT ![p] = "done"]
    /\ UNCHANGED <<env, file, globalStats, statsMutex, mode, greeter, frame, ret,
                   calls, sent, writes, entry, hist>>

\* updateGlobalStats: statsMutex.Lock()
LockStats(p) ==
    /\ pc[p] = "returned"
    /\ mode[p] = "server"
    /\ ret[p].err = NoError
    /\ statsMutex = Unlocked
    /\ statsMutex' = [statsMutex EXCEPT !.writer = TRUE]
    /\ pc' = [pc EXCEPT ![p] = "merge"]
    /\ UNCHANGED <<env, file, globalStats, mode, greeter, frame, ret, response,
                   calls, sent, writes, entry, hist>>

\* MergeStats that keeps the stats of the last request only.
MergeStatsOverwriting(global, new) == new

\* The sums updateGlobalStats makes.
MergeStats(global, new) ==
    [APICalls     |-> global.APICalls + new.APICalls,
     CharsSent    |-> global.CharsSent + new.CharsSent,
     CostEstimate |-> FloatAdd(global.CostEstimate, new.CostEstimate),
     CacheHits    |-> global.CacheHits + new.CacheHits]

\* updateGlobalStats under the lock, and the unlock.
UpdateGlobalStats(p) ==
    /\ pc[p] = "merge"
    /\ globalStats' = MergeStats(globalStats, greeter[p].stats)
    /\ statsMutex' = [statsMutex EXCEPT !.writer = FALSE]
    /\ pc' = [pc EXCEPT ![p] = "respond"]
    /\ UNCHANGED <<env, file, mode, greeter, frame, ret, response, calls, sent,
                   writes, entry, hist>>

\* StatsIncluded that looks at the API calls only.
StatsIncludedForCalls(st) == st.APICalls > 0

\* Whether the handler puts the stats of the request in the response.
StatsIncluded(st) == st.APICalls > 0 \/ st.CacheHits > 0

\* The response: the greeting, and the stats when there was an API call or
\* a cache hit.
Respond(p) ==
    /\ pc[p] = "respond"
    /\ LET st == greeter[p].stats
           has == StatsIncluded(st)
       IN  response' = [response EXCEPT ![p] =
               [status |-> 200, greeting |-> ret[p].greeting, hasStats |-> has,
                stats |-> IF has THEN st ELSE ZeroStats]]
    /\ pc' = [pc EXCEPT ![p] = "done"]
    /\ UNCHANGED <<env, file, globalStats, statsMutex, mode, greeter, frame, ret,
                   calls, sent, writes, entry, hist>>

(***************************************************************************)
(* The specifications.                                                     *)
(***************************************************************************)
\* No more than n Greet calls are made in a run, and nothing is begun when
\* they are made.
Budget(n) == TotalCalls < n

\* The steps of the goroutines P for recipients of R and languages of L when
\* the clock shows an hour of H, with n Greet calls at most.
Step(P, R, L, H, n) ==
    \E p \in P :
        \/ \E r \in R, ok \in BOOLEAN : Budget(n) /\ Construct(p, r, ok)
        \/ \E r \in R, l \in L, ok \in BOOLEAN : Budget(n) /\ HandleRequest(p, r, l, ok)
        \/ \E l \in L : Budget(n) /\ SetLanguage(p, l)
        \/ \E h \in H : Budget(n) /\ Greet(p, h)
        \/ AcquireRLock(p)
        \/ \E fused \in BOOLEAN : Lookup(p, fused)
        \/ \E resp \in ProviderResponses(frame[p].req) : ProviderResponds(p, resp)
        \/ AcquireLock(p)
        \/ Insert(p)
        \/ \E ok \in BOOLEAN : SaveOpen(p, ok)
        \/ \E ok \in BOOLEAN : SaveWrite(p, ok)
        \/ RespondError(p)
        \/ LockStats(p)
        \/ UpdateGlobalStats(p)
        \/ Respond(p)

Next == Step(Procs, Recipients, Languages, ClockHours, MaxCalls)

Spec == Init /\ [][Next]_vars

\* One goroutine, every recipient, every hour of the day.
NextClock == Step({1}, AllRecipients, Languages, Hours, MaxCalls)

SpecClock == Init /\ [][NextClock]_vars

\* One recipient, the languages the provider knows and two hours, with
\* calls enough for a Greeter to save two translations and for a second
\* Greeter to load them and be asked for one.
NextPersist == Step(Procs, PersistRecipients, SupportedLanguages, PersistHours, PersistCalls)

SpecPersist == Init /\ [][NextPersist]_vars

\* The process starts with any of the snapshot files.
InitSnapshot == InitFrom(SnapshotFiles)

NextSnapshot == Step(Procs, PersistRecipients, SnapshotLanguages, PersistHours, MaxCalls)

SpecSnapshot == InitSnapshot /\ [][NextSnapshot]_vars

\* The steps of translateGreeting and saveCache a goroutine takes by itself
\* once Greet is called, the answer of the provider among them.
Running(p) ==
    \/ AcquireRLock(p)
    \/ \E fused \in BOOLEAN : Lookup(p, fused)
    \/ \E resp \in ProviderResponses(frame[p].req) : ProviderResponds(p, resp)
    \/ AcquireLock(p)
    \/ Insert(p)
    \/ \E ok \in BOOLEAN : SaveOpen(p, ok)
    \/ \E ok \in BOOLEAN : SaveWrite(p, ok)

\* One goroutine, started with any of the snapshot files, that runs when it
\* can.
NextLive == Step({1}, PersistRecipients, SnapshotLanguages, PersistHours, MaxCalls)

SpecLive == InitSnapshot /\ [][NextLive]_vars /\ WF_vars(Running(1))

(***************************************************************************)
(* The claims.                                                             *)
(***************************************************************************)
\* The goroutine has made a Greet call; frame, entry and ret are those of
\* its last call.
Called(p) == calls[p] > 0

\* The last Greet call of the goroutine has returned.
Returned(p) == Called(p) /\ pc[p] \in {"returned", "merge", "respond", "done"}

\* The last Greet call of the goroutine is inside translateGreeting after
\* the lookup.
PastLookup(p) == Called(p) /\ pc[p] \in {"call", "lock", "insert", "save", "write", "panicked"}

\* The map holds a translation of the text to the language.
InCache(translations, text, lang) ==
    /\ text \in DOMAIN translations.m
    /\ lang \in DOMAIN translations.m[text].m

\* The greeting the specification gives for an hour and a recipient.
ExpectedGreeting(h, r) ==
    IF h \in 0..11 THEN <<"G", "o", "o", "d", " ", "m", "o", "r", "n", "i", "n", "g", ",", " ">> \o r \o <<"!">>
    ELSE IF h \in 12..16 THEN <<"G", "o", "o", "d", " ", "a", "f", "t", "e", "r", "n", "o", "o", "n", ",", " ">> \o r \o <<"!">>
    ELSE IF h \in 17..21 THEN <<"G", "o", "o", "d", " ", "e", "v", "e", "n", "i", "n", "g", ",", " ">> \o r \o <<"!">>
    ELSE <<"G", "o", "o", "d", " ", "n", "i", "g", "h", "t", ",", " ">> \o r \o <<"!">>

\* C1: for every hour 0..23 and every recipient r the base greeting of a
\* Greet call is exactly "Good morning, r!" before 12, "Good afternoon, r!"
\* from 12 to 16, "Good evening, r!" from 17 to 21 and "Good night, r!"
\* from 22 on.
C1_HourTable ==
    \A p \in Procs :
        Called(p) => /\ frame[p].hour \in Hours
                     /\ frame[p].text = ExpectedGreeting(frame[p].hour, greeter[p].recipient)

\* C1 witness: a call at the boundary hour 17 composed the evening greeting
\* for the recipient Al.
C1_Witness ==
    \E p \in Procs :
        /\ Called(p)
        /\ frame[p].hour = 17
        /\ frame[p].text = <<"G", "o", "o", "d", " ", "e", "v", "e", "n", "i", "n", "g", ",", " ", "A", "l", "!">>

\* The stats after one more cache hit and nothing else.
OneMoreHit(before, after) == after = [before EXCEPT !.CacheHits = @ + 1]

\* C2: when a (text, language) pair was translated with success on a
\* Greeter and is translated again on it, the later call returns without
\* error the text the first one returned, adds 1 to cacheHits and leaves
\* apiCalls, charsSent and costEstimate as they were.
C2_SecondCallIsHit ==
    \A p \in Procs :
        (Returned(p) /\ <<frame[p].text, frame[p].targetLang>> \in entry[p].seen)
            => /\ ret[p].err = NoError
               /\ ret[p].greeting = hist[p][<<frame[p].text, frame[p].targetLang>>]
               /\ OneMoreHit(entry[p].stats, greeter[p].stats)

\* C2 witness: a second call for a pair translated before has returned.
C2_Witness ==
    \E p \in Procs :
        /\ Returned(p)
        /\ calls[p] = 2
        /\ <<frame[p].text, frame[p].targetLang>> \in entry[p].seen
        /\ greeter[p].stats.APICalls = 1
        /\ greeter[p].stats.CacheHits = 1

\* C3: a Greet call with the default language never enters
\* translateGreeting (no lookup, no provider call, no insert, no write to
\* the file); it returns the base greeting without error, adds 1 to
\* cacheHits and changes nothing else of the Greeter.
C3_DefaultLanguage ==
    \A p \in Procs :
        (Called(p) /\ frame[p].targetLang = English)
            => /\ Returned(p)
               /\ ret[p] = [greeting |-> getTimeBasedGreeting(frame[p].hour, greeter[p].recipient),
                            err |-> NoError]
               /\ OneMoreHit(entry[p].stats, greeter[p].stats)
               /\ greeter[p].cache = entry[p].cache
               /\ sent[p] = entry[p].sent
               /\ writes[p] = entry[p].writes
               /\ greeter[p].mu = Unlocked

\* C3 witness: a call with the default language has returned.
C3_Witness ==
    \E p \in Procs :
        /\ Returned(p)
        /\ frame[p].targetLang = English
        /\ greeter[p].stats.CacheHits = entry[p].stats.CacheHits + 1

\* The cost after a miss for a text of n bytes: the cost before plus
\* float64(n) * 0.00002, in float64 arithmetic (fused or not).
CostsAfterMiss(before, n) ==
    {FloatAdd(before, FloatMulUnitCost(n)), FloatFusedAddMul(before, n)}

\* C4: from the moment a call has missed the cache and the request is with
\* the provider, apiCalls is 1 more, charsSent is len(text) more and
\* costEstimate is len(text) * 0.00002 more than when the call began, and it
\* stays so when the provider has answered, with a translation or an error.
C4_MissAccounting ==
    \A p \in Procs :
        (Called(p) /\ frame[p].targetLang # English
                   /\ ~InCache(entry[p].cache, frame[p].text, frame[p].targetLang)
                   /\ (PastLookup(p) \/ Returned(p)))
            => /\ greeter[p].stats.APICalls = entry[p].stats.APICalls + 1
               /\ greeter[p].stats.CharsSent = entry[p].stats.CharsSent + ByteLen(frame[p].text)
               /\ greeter[p].stats.CostEstimate
                      \in CostsAfterMiss(entry[p].stats.CostEstimate, ByteLen(frame[p].text))
               /\ greeter[p].stats.CacheHits = entry[p].stats.CacheHits

\* C4 witness: a second miss of a Greeter ended with an error of the
\* provider and its characters are counted on top of the first miss.
C4_Witness ==
    \E p \in Procs :
        /\ Returned(p)
        /\ ret[p].err = ErrTranslationFailed
        /\ entry[p].stats.APICalls = 1
        /\ greeter[p].stats.APICalls = 2
        /\ greeter[p].stats.CharsSent = 2 * ByteLen(frame[p].text)

\* C5: when the provider call fails, Greet returns an error and no
\* greeting, the cache of the Greeter is what it was when the call began,
\* and the call has written nothing to the file.
C5_FailureIsolation ==
    \A p \in Procs :
        (Returned(p) /\ ret[p].err = ErrTranslationFailed)
            => /\ ret[p].greeting = <<>>
               /\ greeter[p].cache = entry[p].cache
               /\ writes[p] = entry[p].writes

\* C5 witness: a call failed on a Greeter that holds an earlier entry.
C5_Witness ==
    \E p \in Procs :
        /\ Returned(p)
        /\ ret[p].err = ErrTranslationFailed
        /\ greeter[p].cache.m # EmptyFn
        /\ greeter[p].cache = entry[p].cache

\* The (text, language) pairs a map holds.
Pairs(translations) ==
    {<<t, l>> \in (DOMAIN translations.m) \X Languages : l \in DOMAIN translations.m[t].m}

\* The file holds the snapshot the Greeter of p saved: all its entries.
Persisted(p) ==
    /\ writes[p] > 0
    /\ file.exists /\ file.valid
    /\ file.doc = Marshal(greeter[p].cache)

\* The step in which q constructs a Greeter, which loads the file.
Loads(q) == pc[q] = "start" /\ pc'[q] = "ready"

\* C6: when a Greeter has inserted pairs and saved them, a Greeter
\* constructed from the file holds exactly the pairs of the first with the
\* texts the first returned for them; and a Greeter that has called the
\* provider for nothing answers a pair of the map it loaded with the loaded
\* text, without error, and its apiCalls stays 0.
C6_PersistenceRoundTrip ==
    /\ [][\A p, q \in Procs :
            (p # q /\ Persisted(p) /\ Loads(q))
                => /\ greeter'[q].cache = greeter[p].cache
                   /\ \A k \in DOMAIN hist[p] :
                          /\ k \in Pairs(greeter'[q].cache)
                          /\ greeter'[q].cache.m[k[1]].m[k[2]] = hist[p][k]]_vars
    /\ [](\A q \in Procs :
            (Returned(q) /\ frame[q].targetLang # English
                         /\ entry[q].stats.APICalls = 0
                         /\ <<frame[q].text, frame[q].targetLang>> \in Pairs(entry[q].cache))
                => /\ ret[q].err = NoError
                   /\ ret[q].greeting = entry[q].cache.m[frame[q].text].m[frame[q].targetLang]
                   /\ greeter[q].stats.APICalls = 0)

\* C6 witness: a Greeter inserted two pairs and saved them, and a second
\* Greeter that loaded them was asked for one and answered with the text
\* of the first, with a cache hit and no call of the provider.
C6_Witness ==
    \E p, q \in Procs :
        /\ p # q
        /\ Persisted(p)
        /\ Cardinality(Pairs(greeter[p].cache)) = 2
        /\ greeter[p].stats.APICalls = 2
        /\ greeter[q].cache = greeter[p].cache
        /\ Returned(q)
        /\ greeter[q].stats = [ZeroStats EXCEPT !.CacheHits = 1]
        /\ frame[q].targetLang # English
        /\ <<frame[q].text, frame[q].targetLang>> \in DOMAIN hist[p]
        /\ ret[q].greeting = hist[p][<<frame[q].text, frame[q].targetLang>>]

\* C7: in every state the costEstimate of the Stats of every Greeter is its
\* charsSent times 0.00002, and so is the costEstimate of globalStats.
C7_CostIsCharsTimesUnitCost ==
    /\ \A p \in Procs :
           greeter[p].stats.CostEstimate = FloatMulUnitCost(greeter[p].stats.CharsSent)
    /\ globalStats.CostEstimate = FloatMulUnitCost(globalStats.CharsSent)

\* C8: when the provider answered with a translation and saveCache failed,
\* Greet returns the translation without error and the cache of the Greeter
\* holds it for the pair; every pair a Greeter translated stays in its cache
\* with that text, so that a later call for it makes no request and returns
\* the text.
C8_SaveFailureKeepsEntry ==
    \A p \in Procs :
        /\ (Returned(p) /\ frame[p].saveErr # NoError)
               => /\ ret[p] = [greeting |-> frame[p].translation, err |-> NoError]
                  /\ <<frame[p].text, frame[p].targetLang>> \in Pairs(greeter[p].cache)
                  /\ greeter[p].cache.m[frame[p].text].m[frame[p].targetLang]
                         = frame[p].translation
                  /\ <<frame[p].text, frame[p].targetLang>> \in DOMAIN hist[p]
        /\ \A k \in DOMAIN hist[p] :
               /\ k \in Pairs(greeter[p].cache)
               /\ greeter[p].cache.m[k[1]].m[k[2]] = hist[p][k]
        /\ (Called(p) /\ <<frame[p].text, frame[p].targetLang>> \in entry[p].seen)
               => /\ ~PastLookup(p)
                  /\ sent[p] = entry[p].sent
                  /\ Returned(p) => ret[p].err = NoError

\* C8 witness: the first call of a Greeter got a translation and could not
\* open the file to save it, and its second call, for the same pair, was a
\* cache hit.
C8_Witness ==
    \E p \in Procs :
        /\ Returned(p)
        /\ calls[p] = 2
        /\ <<frame[p].text, frame[p].targetLang>> \in entry[p].seen
        /\ entry[p].stats.APICalls = 1
        /\ entry[p].stats.CacheHits = 0
        /\ writes[p] = 0
        /\ ~file.exists
        /\ greeter[p].stats.CacheHits = 1
        /\ ret[p].err = NoError

\* C9: a call that finds its pair in the cache sends nothing to the
\* provider and never gets past the lookup; when it has returned it has
\* written nothing to the file, the cache, apiCalls, charsSent and
\* costEstimate are what they were when it began, and cacheHits is 1 more.
C9_HitFrame ==
    \A p \in Procs :
        (Called(p) /\ frame[p].targetLang # English
                   /\ <<frame[p].text, frame[p].targetLang>> \in Pairs(entry[p].cache))
            => /\ ~PastLookup(p)
               /\ sent[p] = entry[p].sent
               /\ writes[p] = entry[p].writes
               /\ greeter[p].cache = entry[p].cache
               /\ Returned(p) => /\ ret[p].err = NoError
                                 /\ OneMoreHit(entry[p].stats, greeter[p].stats)

\* C9 witness: the first call of a Greeter hit a pair loaded from the file.
C9_Witness ==
    \E p \in Procs :
        /\ Returned(p)
        /\ calls[p] = 1
        /\ frame[p].targetLang # English
        /\ <<frame[p].text, frame[p].targetLang>> \in Pairs(entry[p].cache)
        /\ greeter[p].stats = [ZeroStats EXCEPT !.CacheHits = 1]
        /\ sent[p] = 0
        /\ writes[p] = 0

\* C10: a call with a code other than "en" that misses the cache sends the
\* provider one request, for the text, with exactly the code of the caller
\* as target and "en" as source; when the provider does not know the code
\* Greet returns an error and no text, and the cache is what it was.
C10_NoLocalValidation ==
    \A p \in Procs :
        (Called(p) /\ frame[p].targetLang # English
                   /\ <<frame[p].text, frame[p].targetLang>> \notin Pairs(entry[p].cache)
                   /\ (PastLookup(p) \/ Returned(p)))
            => /\ sent[p] = entry[p].sent + 1
               /\ frame[p].targetLang = greeter[p].language \/ mode[p] = "direct"
               /\ frame[p].req = [contents |-> frame[p].text,
                                  target |-> frame[p].targetLang,
                                  source |-> English]
               /\ (Returned(p) /\ frame[p].targetLang \notin SupportedLanguages)
                      => /\ ret[p] = [greeting |-> <<>>, err |-> ErrTranslationFailed]
                         /\ greeter[p].cache = entry[p].cache
                         /\ writes[p] = entry[p].writes

\* C10 witness: a call with the code "xx" sent its request with target "xx"
\* and returned the error of the provider.
C10_Witness ==
    \E p \in Procs :
        /\ Returned(p)
        /\ frame[p].targetLang = <<"x", "x">>
        /\ frame[p].req.target = <<"x", "x">>
        /\ sent[p] = entry[p].sent + 1
        /\ ret[p].err = ErrTranslationFailed
        /\ greeter[p].cache = entry[p].cache

\* C11: when the provider answers without error and without a translation,
\* Greet returns an error and no text; the call has sent one request and no
\* second one, the cache is what it was when the call began, and the call
\* has written nothing to the file.
C11_EmptyAnswer ==
    \A p \in Procs :
        (Returned(p) /\ ret[p].err = ErrNoTranslation)
            => /\ ret[p].greeting = <<>>
               /\ frame[p].translation = <<>>
               /\ sent[p] = entry[p].sent + 1
               /\ greeter[p].stats.APICalls = entry[p].stats.APICalls + 1
               /\ greeter[p].cache = entry[p].cache
               /\ writes[p] = entry[p].writes
               /\ greeter[p].mu = Unlocked

\* C11 witness: a call for a language the provider knows got an answer with
\* no translation and returned the error, on a Greeter that holds an
\* earlier entry.
C11_Witness ==
    \E p \in Procs :
        /\ Returned(p)
        /\ ret[p].err = ErrNoTranslation
        /\ frame[p].targetLang \in SupportedLanguages
        /\ Pairs(greeter[p].cache) # {}
        /\ <<frame[p].text, frame[p].targetLang>> \notin Pairs(greeter[p].cache)
        /\ sent[p] = entry[p].sent + 1

\* Nothing has been written to the file since the process started.
FileUntouched == SumUpTo(writes, NumProcs) = 0

\* The file is missing, or it is there and NewGreeter cannot load it.
MissingOrMalformed(f) == ~f.exists \/ LoadWarning(f)

\* C12: a Greeter constructed where the snapshot file is missing or
\* malformed starts with an empty cache, which holds no pair, and its first
\* call with another language than the default is a miss.
C12_StartsEmpty ==
    \A q \in Procs :
        (FileUntouched /\ MissingOrMalformed(file))
            => /\ (pc[q] = "ready" /\ calls[q] = 0) => greeter[q].cache = MakeMap
               /\ (Returned(q) /\ calls[q] = 1 /\ frame[q].targetLang # English)
                      => greeter[q].stats.CacheHits = 0

\* The text a map holds for a pair.
Value(translations, k) == translations.m[k[1]].m[k[2]]

\* C13: the cache of a Greeter is a map, which has one text for a pair, and
\* no step of the program (a lookup, an insert, a save, a call that fails
\* or succeeds) removes a pair from it or gives the pair another text.
C13_EntriesImmutable ==
    [][\A p \in Procs :
          \A k \in Pairs(greeter[p].cache) :
              /\ k \in Pairs(greeter'[p].cache)
              /\ Value(greeter'[p].cache, k) = Value(greeter[p].cache, k)]_vars

\* C13 witness: a Greeter inserted a second translation of a text, to
\* another language, and holds the first as it was returned.
C13_Witness ==
    \E p \in Procs :
        /\ Returned(p)
        /\ greeter[p].stats.APICalls = 2
        /\ Cardinality(Pairs(greeter[p].cache)) = 2
        /\ Cardinality(DOMAIN greeter[p].cache.m) = 1
        /\ \A k \in entry[p].seen : Value(greeter[p].cache, k) = hist[p][k]
        /\ entry[p].seen # {}

\* C14: a response with status 200 carries the greeting Greet returned, and
\* it carries the Stats of the request exactly when the request counted an
\* API call or a cache hit; without them it has no stats field.
C14_ResponseStats ==
    \A p \in Procs :
        (pc[p] = "done" /\ response[p].status = 200)
            => /\ ret[p].err = NoError
               /\ response[p].greeting = ret[p].greeting
               /\ response[p].hasStats
                      <=> (greeter[p].stats.APICalls > 0 \/ greeter[p].stats.CacheHits > 0)
               /\ response[p].stats = IF response[p].hasStats THEN greeter[p].stats
                                      ELSE ZeroStats

\* C14 witness: a request answered from a loaded snapshot got status 200
\* and stats with one cache hit and no API call.
C14_Witness ==
    \E p \in Procs :
        /\ pc[p] = "done"
        /\ response[p].status = 200
        /\ frame[p].targetLang # English
        /\ response[p].hasStats
        /\ response[p].stats = [ZeroStats EXCEPT !.CacheHits = 1]

\* C15: when GOOGLE_CLOUD_PROJECT_ID or GOOGLE_APPLICATION_CREDENTIALS is
\* not set, every construction fails at once: no goroutine ever has a
\* Greeter (so the file was not loaded into one), none makes a Greet call
\* or sends a request, the file is not written, and a request is answered
\* with status 500.
C15_ConfigurationFailure ==
    (~env.project \/ ~env.credentials)
        => /\ FileUntouched
           /\ \A p \in Procs :
                  /\ pc[p] \in {"start", "done"}
                  /\ greeter[p] = NoGreeter
                  /\ calls[p] = 0
                  /\ sent[p] = 0
                  /\ (pc[p] = "done" /\ mode[p] = "server") => response[p].status = 500

\* C15 witness: with the credentials variable not set and a snapshot in
\* place, a request was answered with status 500 and a direct caller got
\* the error of NewGreeter.
C15_Witness ==
    /\ env.project /\ ~env.credentials
    /\ file.exists /\ file.valid /\ Pairs(LoadCache(file)) # {}
    /\ \E p, q \in Procs :
           /\ pc[p] = "done" /\ mode[p] = "server" /\ response[p].status = 500
           /\ pc[q] = "done" /\ mode[q] = "direct" /\ greeter[q] = NoGreeter

\* C16: while the request of a call is with the provider the goroutine
\* holds no lock of the cache: the read lock of the lookup is released
\* before the request is sent, and the write lock is asked for and taken
\* only when the provider has answered with a translation.  The read lock
\* is held only in the lookup and in saveCache, the write lock only in the
\* insert.
C16_ProviderCallUnlocked ==
    \A p \in Procs :
        /\ pc[p] = "call" => /\ greeter[p].mu = Unlocked
                             /\ sent[p] = entry[p].sent + 1
                             /\ frame[p].translation = <<>>
        /\ pc[p] \in {"lock", "insert"} => frame[p].translation # <<>>
        /\ greeter[p].mu.writer => pc[p] = "insert"
        /\ greeter[p].mu.readers > 0 => pc[p] \in {"lookup", "write"}

\* C16 witness: while the request of one goroutine is with the provider,
\* another goroutine, asked for the same pair, is inserting its translation
\* under the write lock of its cache.
C16_Witness ==
    \E p, q \in Procs :
        /\ p # q
        /\ pc[p] = "call"
        /\ greeter[p].mu = Unlocked
        /\ pc[q] = "insert"
        /\ greeter[q].mu.writer
        /\ frame[q].text = frame[p].text
        /\ frame[q].targetLang = frame[p].targetLang

\* The lock of a cache when one goroutine holds it for writing.
Exclusive == [readers |-> 0, writer |-> TRUE]

\* C17: during an insert and during a save of the cache to the file the
\* goroutine holds the lock of the cache for writing, which admits no
\* reader and no other writer.
C17_InsertAndSaveExclusive ==
    \A p \in Procs :
        /\ pc[p] = "insert" => greeter[p].mu = Exclusive
        /\ pc[p] = "write" => greeter[p].mu = Exclusive

\* The goroutine is handling a request and has its Greeter.
InRequest(p) ==
    /\ mode[p] = "server"
    /\ pc[p] \notin {"start", "done", "panicked"}

\* C18: the requests being handled work on one cache under one lock: what
\* the Greeter of one holds and how it is locked is what the Greeter of the
\* other holds and how it is locked.
C18_OneSharedCache ==
    \A p, q \in Procs :
        (InRequest(p) /\ InRequest(q))
            => /\ greeter[p].cache = greeter[q].cache
               /\ greeter[p].mu = greeter[q].mu

\* The last call of the goroutine was for a pair its cache did not hold, and
\* it returned a translation.
Translated(p) ==
    /\ Returned(p)
    /\ frame[p].targetLang # English
    /\ <<frame[p].text, frame[p].targetLang>> \notin Pairs(entry[p].cache)
    /\ ret[p].err = NoError

\* C19: nothing keeps two requests for one pair from both calling the
\* provider: when both missed and both returned a translation, each has
\* sent its own request, and each has inserted the answer it got in its
\* cache and returned it without error, whatever the other got.
C19_NoAtMostOnce ==
    \A p, q \in Procs :
        (p # q /\ InRequest(p) /\ InRequest(q) /\ Translated(p) /\ Translated(q)
               /\ frame[p].text = frame[q].text
               /\ frame[p].targetLang = frame[q].targetLang)
            => /\ sent[p] = 1 /\ sent[q] = 1
               /\ greeter[p].stats.APICalls = 1 /\ greeter[q].stats.APICalls = 1
               /\ ret[p].greeting = frame[p].translation
               /\ ret[q].greeting = frame[q].translation
               /\ Value(greeter[p].cache, <<frame[p].text, frame[p].targetLang>>)
                      = frame[p].translation
               /\ Value(greeter[q].cache, <<frame[q].text, frame[q].targetLang>>)
                      = frame[q].translation

\* C19 witness: two requests for one pair both called the provider, got
\* different translations and returned them without error; the file holds
\* the translation of the second and not that of the first.
C19_Witness ==
    \E p, q \in Procs :
        /\ p # q
        /\ InRequest(p) /\ InRequest(q)
        /\ Translated(p) /\ Translated(q)
        /\ frame[p].text = frame[q].text
        /\ frame[p].targetLang = frame[q].targetLang
        /\ sent[p] = 1 /\ sent[q] = 1
        /\ ret[p].greeting # ret[q].greeting
        /\ file.exists /\ file.valid
        /\ file.doc = Marshal(greeter[q].cache)
        /\ file.doc # Marshal(greeter[p].cache)

\* The requests that returned a greeting and whose stats were merged.
Merged == {p \in Procs : mode[p] = "server" /\ pc[p] \in {"respond", "done"}
                                            /\ Called(p) /\ ret[p].err = NoError}

\* The sum of a counter over the stats of the requests of S.
RECURSIVE SumOfCounter(_, _)
SumOfCounter(S, counter) ==
    IF S = {} THEN 0
    ELSE LET p == CHOOSE p \in S : TRUE
         IN  greeter[p].stats[counter] + SumOfCounter(S \ {p}, counter)

\* The float64 sums of the costs of the requests of S, added to 0 one by
\* one in any order.
RECURSIVE SumsOfCost(_)
SumsOfCost(S) ==
    IF S = {} THEN {FloatZero}
    ELSE UNION {{FloatAdd(c, greeter[p].stats.CostEstimate) : c \in SumsOfCost(S \ {p})} : p \in S}

\* C20: each counter of globalStats is the sum of the counter over the
\* stats of the requests that returned a greeting and were merged, the
\* cost being added in float64 in the order of the merges; a merge is made
\* under statsMutex held for writing, by one goroutine at a time.
C20_AggregateIsSum ==
    /\ globalStats.APICalls = SumOfCounter(Merged, "APICalls")
    /\ globalStats.CharsSent = SumOfCounter(Merged, "CharsSent")
    /\ globalStats.CacheHits = SumOfCounter(Merged, "CacheHits")
    /\ globalStats.CostEstimate \in SumsOfCost(Merged)
    /\ statsMutex.writer <=> (\E p \in Procs : pc[p] = "merge")
    /\ \A p, q \in Procs : (pc[p] = "merge" /\ pc[q] = "merge") => p = q

\* C20 witness: two requests that ran together were merged, one with an API
\* call of 15 bytes and one with an API call of 16 bytes.
C20_Witness ==
    /\ Cardinality(Merged) = 2
    /\ globalStats.APICalls = 2
    /\ globalStats.CharsSent = 31
    /\ globalStats.CacheHits = 0

\* The requests that are answered, with a greeting or with an error.
Completed == {p \in Procs : mode[p] = "server" /\ pc[p] = "done"}

\* The sum of the requests the goroutines of S sent to the provider.
RECURSIVE SumOfSent(_)
SumOfSent(S) ==
    IF S = {} THEN 0
    ELSE LET p == CHOOSE p \in S : TRUE
         IN  sent[p] + SumOfSent(S \ {p})

\* C21: when every request is answered, apiCalls of globalStats is the
\* number of requests sent to the provider by all of them, and charsSent
\* of globalStats is the sum of their charsSent, the requests that ended
\* with an error included.
C21_AggregateKeepsFailures ==
    (\A p \in Procs : mode[p] = "server" => pc[p] = "done")
        => /\ globalStats.APICalls = SumOfSent(Completed)
           /\ globalStats.CharsSent = SumOfCounter(Completed, "CharsSent")

\* The step in which saveCache of p returns without error.
Saved(p) == pc[p] = "write" /\ pc'[p] = "returned" /\ frame'[p].saveErr = NoError

\* C22: when a call has inserted its translation and saveCache has written
\* the file without error, the file is a document of exactly the entries of
\* the cache of the Greeter: decoded, it is the cache.
C22_SnapshotIsWholeCache ==
    [][\A p \in Procs :
          Saved(p) => /\ file'.exists /\ file'.valid
                      /\ file'.doc = Marshal(greeter'[p].cache)
                      /\ Unmarshal(file'.doc, MakeMap) = greeter'[p].cache]_vars

\* The Greeter of p loaded an empty cache, every call made on it was for
\* the text of the last one, and every call returned without error.
AlwaysSucceeded(p) ==
    /\ Returned(p)
    /\ entry[p].loaded = MakeMap
    /\ entry[p].failed = 0
    /\ ret[p].err = NoError
    /\ \A k \in DOMAIN hist[p] : k[1] = frame[p].text

\* C23: for a Greeter that loaded an empty cache, with one base greeting
\* and a provider that has answered every request with a translation,
\* apiCalls is the number of codes other than "en" asked for so far, and
\* the cache holds the pairs of the greeting with these codes and no other.
C23_OneCallPerCode ==
    \A p \in Procs :
        AlwaysSucceeded(p)
            => /\ greeter[p].stats.APICalls = Cardinality(entry[p].asked)
               /\ Pairs(greeter[p].cache) = {<<frame[p].text, l>> : l \in entry[p].asked}

\* C23 witness: three calls on a Greeter, for "es", "fr" and again for one
\* of them, made two API calls and left two entries.
C23_Witness ==
    \E p \in Procs :
        /\ AlwaysSucceeded(p)
        /\ calls[p] = 3
        /\ entry[p].asked = SupportedLanguages
        /\ greeter[p].stats.APICalls = 2
        /\ greeter[p].stats.CacheHits = 1
        /\ Cardinality(Pairs(greeter[p].cache)) = 2

\* The number of characters of a text (a byte that is no UTF-8 counts as
\* one).
CharCount(text) == Len(text)

\* C24: on a cache miss charsSent grows by the number of characters of the
\* text sent, whatever the recipient, names with characters of more than
\* one byte included.
C24_CharsSentCountsCharacters ==
    \A p \in Procs :
        (Called(p) /\ frame[p].targetLang # English
                   /\ <<frame[p].text, frame[p].targetLang>> \notin Pairs(entry[p].cache)
                   /\ (PastLookup(p) \/ Returned(p)))
            => greeter[p].stats.CharsSent = entry[p].stats.CharsSent + CharCount(frame[p].text)

\* Where a goroutine is inside translateGreeting.
InTranslate == {"rlock", "lookup", "call", "lock", "insert", "save", "write"}

\* The moves of a request: from Start, Greet composes the greeting and
\* either skips the translation and is done or goes to the lookup; the
\* lookup and what follows it end in Done.
RequestMoves ==
    {<<"start", "ready">>, <<"start", "done">>, <<"ready", "returned">>, <<"ready", "rlock">>,
     <<"returned", "returned">>, <<"returned", "rlock">>,
     <<"rlock", "lookup">>, <<"lookup", "returned">>, <<"lookup", "call">>,
     <<"call", "returned">>, <<"call", "lock">>, <<"lock", "insert">>,
     <<"insert", "save">>, <<"save", "write">>, <<"save", "returned">>,
     <<"write", "returned">>, <<"returned", "merge">>, <<"returned", "done">>,
     <<"merge", "respond">>, <<"respond", "done">>}

\* C25: a call goes from its start to the composed greeting, then either
\* skips the translation (language "en") or looks it up (any other
\* language), never both and never the lookup before the greeting is
\* composed, and then it is done; and when the provider answers, every
\* call that looks up returns, with a greeting or an error.
C25_RequestStateMachine ==
    /\ [](\A p \in Procs :
            /\ pc[p] \in InTranslate
                   => /\ frame[p].targetLang # English
                      /\ frame[p].text = getTimeBasedGreeting(frame[p].hour, greeter[p].recipient)
            /\ (Called(p) /\ frame[p].targetLang = English)
                   => /\ Returned(p)
                      /\ sent[p] = entry[p].sent)
    /\ [][\A p \in Procs : pc'[p] # pc[p] => <<pc[p], pc'[p]>> \in RequestMoves]_vars
    /\ \A p \in Procs : (pc[p] \in InTranslate) ~> Returned(p)

\* C26: apiCalls + cacheHits of a Greeter is the number of Greet calls made
\* on it: when a call has returned, with a greeting or an error, the sum
\* is the number of calls, the call has added 1 to one of the two counters
\* and nothing to the other, and while a call is in progress the sum is the
\* number of calls before it or, once the call is counted, with it.
C26_CallsAreCounted ==
    \A p \in Procs :
        LET st  == greeter[p].stats
            was == entry[p].stats
        IN  /\ Returned(p)
                   => /\ st.APICalls + st.CacheHits = calls[p]
                      /\ \/ st.APICalls = was.APICalls + 1 /\ st.CacheHits = was.CacheHits
                         \/ st.APICalls = was.APICalls /\ st.CacheHits = was.CacheHits + 1
            /\ (Called(p) /\ ~Returned(p))
                   => st.APICalls + st.CacheHits \in {calls[p] - 1, calls[p]}
            /\ ~Called(p) => st.APICalls + st.CacheHits = 0

\* C26 witness: after two calls on one Greeter, one that the provider failed and
\* then one with "en", each counter is 1 and the counters add up to two.
C26_Witness ==
    \E p \in Procs :
        /\ Returned(p)
        /\ calls[p] = 2
        /\ frame[p].targetLang = English
        /\ entry[p].failed = 1
        /\ greeter[p].stats.APICalls = 1
        /\ greeter[p].stats.CacheHits = 1

\* The requests that inserted a translation and wrote the snapshot.
Wrote == {p \in Procs : mode[p] = "server" /\ pc[p] = "done" /\ writes[p] > 0}

\* Every goroutine that began is a request that is answered, and no write
\* of the snapshot failed.
AllFinished ==
    /\ \A p \in Procs : mode[p] = "server" /\ pc[p] = "done"
    /\ \A p \in Procs : frame[p].saveErr = NoError

\* C27: when the requests that ran together are all answered and every
\* write of the snapshot succeeded, the file is a document that holds the
\* pair of every request that inserted one, with the translation some
\* request got for it.
C27_NoLostEntries ==
    (AllFinished /\ Wrote # {})
        => /\ file.exists /\ file.valid
           /\ \A p \in Wrote :
                  LET k == <<frame[p].text, frame[p].targetLang>>
                  IN  /\ k \in Pairs(Unmarshal(file.doc, MakeMap))
                      /\ \E q \in Wrote :
                             Value(Unmarshal(file.doc, MakeMap), k) = frame[q].translation

\* The places where translateGreeting or saveCache holds the lock of the
\* cache.
Holding == {"lookup", "insert", "write"}

\* C28: translateGreeting and saveCache release the lock they took on every
\* path: outside the lookup, the insert and the write of the file the lock
\* of the cache of a Greeter is free, in particular once Greet has returned
\* or stopped; and a goroutine waiting for the lock of its cache gets it.
C28_LocksReleased ==
    \A p \in Procs :
        /\ pc[p] \notin Holding => greeter[p].mu = Unlocked
        /\ pc[p] = "rlock" => ENABLED AcquireRLock(p)
        /\ pc[p] = "lock" => ENABLED AcquireLock(p)
        /\ pc[p] = "save" => \E ok \in BOOLEAN : ENABLED SaveOpen(p, ok)

\* The goroutine has stopped in a panic.
Crashed(p) == pc[p] = "panicked"

\* C29: whatever the file held when the Greeter was constructed, no call
\* crashes: a call that missed and got a translation from the provider
\* inserts it and returns it.
C29_CacheUsableAfterLoad ==
    \A p \in Procs :
        /\ ~Crashed(p)
        /\ (Returned(p) /\ frame[p].targetLang # English /\ sent[p] > entry[p].sent
               /\ ret[p].err = NoError)
              => /\ InCache(greeter[p].cache, frame[p].text, frame[p].targetLang)
                 /\ ret[p].greeting = frame[p].translation

====
